---- MODULE Spec2Model ----
(***************************************************************************)
(* Model of src/utils/image_processor.py: ComicImageProcessor              *)
(* (optimize_image, create_thumbnail, batch_optimize, get_image_info,      *)
(* _generate_output_path) and the command line entry point main().         *)
(*                                                                         *)
(* Strings and paths are sequences of one-character strings, so that       *)
(* stem / suffix / lower() / startswith() are computed, not assumed.       *)
(* Python floats are IEEE-754 binary64 values, computed with correct       *)
(* rounding (round-half-even) on a 53 bit significand.                     *)
(***************************************************************************)
EXTENDS Integers, Sequences, FiniteSets, TLC

(***************************************************************************)
(* Bounds of the model                                                     *)
(***************************************************************************)
\* largest original width / height of an image in SpecResize
MaxDim == 48
\* largest max_width / max_height of the policy in SpecResize
MaxPolicy == 3
\* largest number of entries of the input directory in Spec
MaxFiles == 3
\* largest number of command line arguments after the program name in SpecCli
MaxArgs == 3

(***************************************************************************)
(* Python float: IEEE-754 binary64.  A positive finite value is            *)
(* [m |-> <<1, d1, d2, d3, d4>>, e |-> E]: the significand is the leading   *)
(* 1 followed by four 13 bit limbs (1 + 52 bits), the value is             *)
(* 1.d1d2d3d4 (binary) * 2^E.                                              *)
(***************************************************************************)
LimbBits == 13

RECURSIVE Pow2(_)
Pow2(pn) == IF pn = 0 THEN 1 ELSE 2 * Pow2(pn - 1)

Limb == Pow2(LimbBits)

\* int.bit_length()
RECURSIVE BitLen(_)
BitLen(bn) == IF bn = 0 THEN 0 ELSE 1 + BitLen(bn \div 2)

\* the significand rm plus one unit in the last place (rounding went up)
FloatRoundUp(rm, re) ==
    LET s4 == rm[5] + 1
        s3 == rm[4] + s4 \div Limb
        s2 == rm[3] + s3 \div Limb
        s1 == rm[2] + s2 \div Limb
        s0 == rm[1] + s1 \div Limb
    IN IF s0 = 2 THEN [m |-> <<1, 0, 0, 0, 0>>, e |-> re + 1]
       ELSE [m |-> <<1, s1 % Limb, s2 % Limb, s3 % Limb, s4 % Limb>>, e |-> re]

\* fa / fb for positive ints (true division), correctly rounded
FloatDiv(fa, fb) ==
    LET fe == IF fa >= fb THEN BitLen(fa \div fb) - 1
              ELSE -(CHOOSE ft \in 1..30 : fa * Pow2(ft) >= fb /\ fa * Pow2(ft - 1) < fb)
        fn == IF fe < 0 THEN fa * Pow2(-fe) ELSE fa
        fd == IF fe > 0 THEN fb * Pow2(fe) ELSE fb
        r0 == fn - fd
        r1 == (r0 * Limb) % fd
        r2 == (r1 * Limb) % fd
        r3 == (r2 * Limb) % fd
        r4 == (r3 * Limb) % fd
        fm == <<1, (r0 * Limb) \div fd, (r1 * Limb) \div fd,
                   (r2 * Limb) \div fd, (r3 * Limb) \div fd>>
    IN IF 2 * r4 > fd \/ (2 * r4 = fd /\ fm[5] % 2 = 1)
       THEN FloatRoundUp(fm, fe) ELSE [m |-> fm, e |-> fe]

\* xw * xf for a positive int xw (converted exactly) and a float xf,
\* correctly rounded
FloatMulInt(xw, xf) ==
    LET p4 == xw * xf.m[5]
        p3 == xw * xf.m[4] + p4 \div Limb
        p2 == xw * xf.m[3] + p3 \div Limb
        p1 == xw * xf.m[2] + p2 \div Limb
        p0 == xw * xf.m[1] + p1 \div Limb
        xL == BitLen(p0) - 1
        lo == Pow2(xL)
        hi == Pow2(LimbBits - xL)
        xm == <<1,
                (p0 % lo) * hi + (p1 % Limb) \div lo,
                ((p1 % Limb) % lo) * hi + (p2 % Limb) \div lo,
                ((p2 % Limb) % lo) * hi + (p3 % Limb) \div lo,
                ((p3 % Limb) % lo) * hi + (p4 % Limb) \div lo>>
        dropped == (p4 % Limb) % lo
    IN IF 2 * dropped > lo \/ (2 * dropped = lo /\ xm[5] % 2 = 1)
       THEN FloatRoundUp(xm, xf.e + xL) ELSE [m |-> xm, e |-> xf.e + xL]

\* a mutant of FloatTrunc: rounds up instead of truncating
FloatTruncUp(tf) ==
    IF tf.e < 0 THEN 1
    ELSE 1 + (IF tf.e <= LimbBits
              THEN Pow2(tf.e) + tf.m[2] \div Pow2(LimbBits - tf.e)
              ELSE Pow2(tf.e) + tf.m[2] * Pow2(tf.e - LimbBits)
                              + tf.m[3] \div Pow2(2 * LimbBits - tf.e))

\* int(tf): truncation toward zero
FloatTrunc(tf) ==
    IF tf.e < 0 THEN 0
    ELSE IF tf.e <= LimbBits
         THEN Pow2(tf.e) + tf.m[2] \div Pow2(LimbBits - tf.e)
         ELSE Pow2(tf.e) + tf.m[2] * Pow2(tf.e - LimbBits)
                         + tf.m[3] \div Pow2(2 * LimbBits - tf.e)

\* lx < ly
FloatLess(lx, ly) ==
    \/ lx.e < ly.e
    \/ /\ lx.e = ly.e
       /\ \E li \in 1..5 : /\ lx.m[li] < ly.m[li]
                           /\ \A lj \in 1..(li - 1) : lx.m[lj] = ly.m[lj]

\* the literal 1.0
FloatOne == [m |-> <<1, 0, 0, 0, 0>>, e |-> 0]

\* a mutant of FloatMin3: the clamp at 1.0 is forgotten
FloatMin2(ma, mb, mc) == IF FloatLess(mb, ma) THEN mb ELSE ma

\* min(ma, mb, mc): the first of the smallest
FloatMin3(ma, mb, mc) ==
    LET m2 == IF FloatLess(mb, ma) THEN mb ELSE ma
    IN IF FloatLess(mc, m2) THEN mc ELSE m2

(***************************************************************************)
(* Python str, os.path and pathlib on sequences of characters              *)
(***************************************************************************)
UpperLetters == <<"A","B","C","D","E","F","G","H","I","J","K","L","M",
                  "N","O","P","Q","R","S","T","U","V","W","X","Y","Z">>
LowerLetters == <<"a","b","c","d","e","f","g","h","i","j","k","l","m",
                  "n","o","p","q","r","s","t","u","v","w","x","y","z">>
Digits == <<"0","1","2","3","4","5","6","7","8","9">>

\* the value None
None == <<"None">>

LowerChar(ch) ==
    IF \E ui \in 1..26 : UpperLetters[ui] = ch
    THEN LowerLetters[CHOOSE ui \in 1..26 : UpperLetters[ui] = ch]
    ELSE ch

\* str.lower()
StrLower(ls) == [li \in 1..Len(ls) |-> LowerChar(ls[li])]

\* str.rfind(ch), 1-based, 0 when absent
RFind(fs_, ch) ==
    IF \E fi \in 1..Len(fs_) : fs_[fi] = ch
    THEN CHOOSE fi \in 1..Len(fs_) :
             fs_[fi] = ch /\ \A fj \in (fi + 1)..Len(fs_) : fs_[fj] # ch
    ELSE 0

\* str.startswith(pre)
StartsWith(ws, pre) ==
    Len(ws) >= Len(pre) /\ SubSeq(ws, 1, Len(pre)) = pre

\* PurePath.name: the last component
PathName(pp) == SubSeq(pp, RFind(pp, "/") + 1, Len(pp))

\* str(PurePath.parent) of a relative, normalised path
PathParent(pp) ==
    IF RFind(pp, "/") = 0 THEN <<".">> ELSE SubSeq(pp, 1, RFind(pp, "/") - 1)

\* PurePath.suffix: from the last dot of the name, unless the dot leads or ends it
PathSuffix(pp) ==
    LET nm == PathName(pp)
        di == RFind(nm, ".")
    IN IF 1 < di /\ di < Len(nm) THEN SubSeq(nm, di, Len(nm)) ELSE <<>>

\* PurePath.stem: the name without its suffix
PathStem(pp) ==
    LET nm == PathName(pp)
        di == RFind(nm, ".")
    IN IF 1 < di /\ di < Len(nm) THEN SubSeq(nm, 1, di - 1) ELSE nm

\* str(Path(par) / nm)
PathDiv(par, nm) == IF par = <<".">> THEN nm ELSE par \o <<"/">> \o nm

\* os.path.join(ja, jb)
OsPathJoin(ja, jb) ==
    IF Len(jb) > 0 /\ jb[1] = "/" THEN jb
    ELSE IF Len(ja) = 0 \/ ja[Len(ja)] = "/" THEN ja \o jb
    ELSE ja \o <<"/">> \o jb

\* int(s) accepts a non-empty run of decimal digits here
IsIntLiteral(is) ==
    Len(is) > 0 /\ \A ii \in 1..Len(is) : \E dv \in 1..10 : Digits[dv] = is[ii]

DigitValue(ch) == (CHOOSE dv \in 1..10 : Digits[dv] = ch) - 1

RECURSIVE IntOf(_)
IntOf(is) ==
    IF Len(is) = 0 THEN 0
    ELSE 10 * IntOf(SubSeq(is, 1, Len(is) - 1)) + DigitValue(is[Len(is)])

(***************************************************************************)
(* Program constants                                                       *)
(***************************************************************************)
DefaultMaxWidth == 1200
DefaultMaxHeight == 1800
DefaultQuality == 85
ThumbnailQuality == 90
CliDefaultWidth == 1200
CliDefaultQuality == 85
ThumbnailDefaultSize == <<400, 600>>

\* the exit status of sys.exit(1)
ExitError == 1

\* supported_formats of batch_optimize
SupportedFormats ==
    { <<".", "j", "p", "g">>, <<".", "j", "p", "e", "g">>, <<".", "p", "n", "g">>,
      <<".", "w", "e", "b", "p">>, <<".", "b", "m", "p">> }

\* the modes optimize_image and create_thumbnail convert to RGB
ConvertedModes == {"RGBA", "LA", "P"}

(***************************************************************************)
(* The filesystem: a function from the paths that exist to what is there.  *)
(* The current directory "." always exists.                                *)
(***************************************************************************)
Directory ==
    [kind |-> "dir", image |-> FALSE, format |-> "", mode |-> "",
     width |-> 0, height |-> 0, quality |-> 0]

\* a file the imaging library decodes
ImageFile(fmt, md, iw, ih, iq) ==
    [kind |-> "file", image |-> TRUE, format |-> fmt, mode |-> md,
     width |-> iw, height |-> ih, quality |-> iq]

\* a file that is no image (corrupt, or text)
GarbageFile ==
    [kind |-> "file", image |-> FALSE, format |-> "", mode |-> "",
     width |-> 0, height |-> 0, quality |-> 0]

\* os.path.isdir
IsDir(fsys, ip) == ip = <<".">> \/ (ip \in DOMAIN fsys /\ fsys[ip].kind = "dir")

\* os.path.isfile
IsFile(fsys, ip) == ip \in DOMAIN fsys /\ fsys[ip].kind = "file"

\* the filesystem with entry en at path wp
WriteEntry(fsys, wp, en) ==
    [wq \in DOMAIN fsys \cup {wp} |-> IF wq = wp THEN en ELSE fsys[wq]]

\* the entries of directory dp (what Path(dp).iterdir() yields, in some order)
Children(fsys, dp) == {cp \in DOMAIN fsys : RFind(cp, "/") > 0 /\ PathParent(cp) = dp}

\* Path(mp).mkdir(parents=True, exist_ok=True): [raised, fs]
RECURSIVE MkdirParents(_, _)
MkdirParents(fsys, mp) ==
    IF IsDir(fsys, mp) THEN [raised |-> "", fs |-> fsys]
    ELSE IF mp \in DOMAIN fsys THEN [raised |-> "FileExistsError", fs |-> fsys]
    ELSE LET up == MkdirParents(fsys, PathParent(mp))
         IN IF up.raised # "" THEN [raised |-> "NotADirectoryError", fs |-> fsys]
            ELSE [raised |-> "", fs |-> WriteEntry(up.fs, mp, Directory)]

(***************************************************************************)
(* The imaging library (Pillow), as far as the program uses it             *)
(***************************************************************************)
\* Image.open(op): the exception it raises, "" when the image opens
ImageOpenError(fsys, op) ==
    IF IsDir(fsys, op) THEN "IsADirectoryError"
    ELSE IF op \notin DOMAIN fsys THEN "FileNotFoundError"
    ELSE IF ~fsys[op].image THEN "UnidentifiedImageError"
    ELSE ""

\* img.convert('RGB') when the mode is one of ConvertedModes
ConvertMode(md) == IF md \in ConvertedModes THEN "RGB" ELSE md

\* img.resize((rw, rh), LANCZOS): the exception it raises, "" when it resizes
ResizeError(rw, rh) == IF rw < 1 \/ rh < 1 THEN "ValueError" ELSE ""

\* img.save(sp, 'JPEG', ...): the exception opening sp for writing raises
SaveError(fsys, sp) ==
    IF IsDir(fsys, sp) THEN "IsADirectoryError"
    ELSE IF ~IsDir(fsys, PathParent(sp)) THEN "FileNotFoundError"
    ELSE ""

\* img.thumbnail(size): the sizes the library may leave an iw x ih image with:
\* unchanged when it fits, else some size inside the box, never below 1 pixel
ThumbnailSizes(iw, ih, size) ==
    IF size[1] >= iw /\ size[2] >= ih THEN {<<iw, ih>>}
    ELSE { <<tw, th>> \in (1..iw) \X (1..ih) : tw <= size[1] /\ th <= size[2] }

(***************************************************************************)
(* ComicImageProcessor                                                     *)
(***************************************************************************)
\* what a call of a processor method did; fs is the filesystem it leaves
CallRecord(opn, inp, oarg, fsys) ==
    [op |-> opn, input |-> inp, output_arg |-> oarg, raised |-> "",
     ret |-> None, ret_list |-> <<>>, info |-> <<>>, opened |-> FALSE,
     original_size |-> <<0, 0>>, resize_ratio |-> FloatOne, resized |-> FALSE,
     new_size |-> <<0, 0>>, written |-> None, fs |-> fsys]

Suffix_optimized == <<"_", "o", "p", "t", "i", "m", "i", "z", "e", "d">>
Suffix_thumb == <<"_", "t", "h", "u", "m", "b">>
DotJpg == <<".", "j", "p", "g">>

\* a mutant of GenerateOutputPath: the input's own extension is kept
GenerateOutputPathKeepSuffix(inp, sfx) ==
    PathDiv(PathParent(inp), PathStem(inp) \o sfx \o PathSuffix(inp))

\* _generate_output_path(input_path, suffix)
GenerateOutputPath(inp, sfx) ==
    PathDiv(PathParent(inp), PathStem(inp) \o sfx \o DotJpg)

\* lines 70-72: resize_ratio for an original_width x original_height image
ResizeRatio(proc, original_width, original_height) ==
    FloatMin3(FloatDiv(proc.max_width, original_width),
              FloatDiv(proc.max_height, original_height),
              FloatOne)

\* lines 74-76: whether the image is resized, and to what size
ResizePlan(original_width, original_height, resize_ratio) ==
    [resize_ratio |-> resize_ratio,
     resized |-> FloatLess(resize_ratio, FloatOne),
     new_width |-> FloatTrunc(FloatMulInt(original_width, resize_ratio)),
     new_height |-> FloatTrunc(FloatMulInt(original_height, resize_ratio))]

\* the output path optimize_image writes
OptimizeOutputPath(inp, oarg) ==
    IF oarg = None THEN GenerateOutputPath(inp, Suffix_optimized) ELSE oarg

\* optimize_image once the image img has opened: resize, then save
OptimizeOpened(proc, fsys, inp, oarg, output_path, img, plan) ==
    LET size == IF plan.resized THEN <<plan.new_width, plan.new_height>>
                ELSE <<img.width, img.height>>
        sized == [CallRecord("optimize_image", inp, oarg, fsys) EXCEPT
                     !.opened = TRUE,
                     !.original_size = <<img.width, img.height>>,
                     !.resize_ratio = plan.resize_ratio,
                     !.resized = plan.resized,
                     !.new_size = size]
    IN IF plan.resized /\ ResizeError(plan.new_width, plan.new_height) # ""
       THEN [sized EXCEPT !.raised = ResizeError(plan.new_width, plan.new_height)]
       ELSE IF SaveError(fsys, output_path) # ""
            THEN [sized EXCEPT !.raised = SaveError(fsys, output_path)]
       ELSE [sized EXCEPT
                !.ret = output_path,
                !.written = output_path,
                !.fs = WriteEntry(fsys, output_path,
                                  ImageFile("JPEG", ConvertMode(img.mode),
                                            size[1], size[2], proc.quality))]

\* optimize_image(input_path, output_path)
OptimizeImage(pil, proc, fsys, inp, oarg) ==
    IF ~pil
    THEN [CallRecord("optimize_image", inp, oarg, fsys) EXCEPT !.raised = "RuntimeError"]
    ELSE IF ImageOpenError(fsys, inp) # ""
         THEN [CallRecord("optimize_image", inp, oarg, fsys) EXCEPT
                  !.raised = ImageOpenError(fsys, inp)]
    ELSE OptimizeOpened(proc, fsys, inp, oarg, OptimizeOutputPath(inp, oarg), fsys[inp],
                        ResizePlan(fsys[inp].width, fsys[inp].height,
                                   ResizeRatio(proc, fsys[inp].width, fsys[inp].height)))

\* create_thumbnail(input_path, output_path, size); tsz is the size
\* img.thumbnail(size) left the image with
CreateThumbnail(pil, fsys, inp, oarg, tsz) ==
    LET base == CallRecord("create_thumbnail", inp, oarg, fsys)
        output_path == IF oarg = None THEN GenerateOutputPath(inp, Suffix_thumb)
                       ELSE oarg
        img == fsys[inp]
        sized == [base EXCEPT !.opened = TRUE,
                              !.original_size = <<img.width, img.height>>,
                              !.resized = (tsz # <<img.width, img.height>>),
                              !.new_size = tsz]
    IN IF ~pil THEN [base EXCEPT !.raised = "RuntimeError"]
       ELSE IF ImageOpenError(fsys, inp) # ""
            THEN [base EXCEPT !.raised = ImageOpenError(fsys, inp)]
       ELSE IF SaveError(fsys, output_path) # ""
            THEN [sized EXCEPT !.raised = SaveError(fsys, output_path)]
       ELSE [sized EXCEPT
                !.ret = output_path,
                !.written = output_path,
                !.fs = WriteEntry(fsys, output_path,
                                  ImageFile("JPEG", ConvertMode(img.mode),
                                            tsz[1], tsz[2], ThumbnailQuality))]

\* get_image_info(image_path); info is <<width, height, format, mode>>
GetImageInfo(pil, fsys, inp) ==
    LET base == CallRecord("get_image_info", inp, None, fsys)
        img == fsys[inp]
    IN IF ~pil THEN [base EXCEPT !.raised = "RuntimeError"]
       ELSE IF ImageOpenError(fsys, inp) # ""
            THEN [base EXCEPT !.raised = ImageOpenError(fsys, inp)]
       ELSE [base EXCEPT !.opened = TRUE,
                         !.original_size = <<img.width, img.height>>,
                         !.info = <<img.width, img.height, img.format, img.mode>>]

\* batch_optimize up to its loop: the output directory is made and the
\* input directory is listed
BatchBegin(fsys, input_dir, oarg) ==
    LET output_dir == IF oarg = None
                      THEN OsPathJoin(input_dir, <<"o","p","t","i","m","i","z","e","d">>)
                      ELSE oarg
        made == MkdirParents(fsys, output_dir)
    IN [raised |-> IF made.raised # "" THEN made.raised
                   ELSE IF IsDir(made.fs, input_dir) THEN ""
                   ELSE IF input_dir \in DOMAIN made.fs THEN "NotADirectoryError"
                   ELSE "FileNotFoundError",
        fs |-> made.fs,
        output_dir |-> output_dir,
        pending |-> Children(made.fs, input_dir)]

\* file_path.suffix.lower() in supported_formats
IsSupported(fp) == StrLower(PathSuffix(fp)) \in SupportedFormats

\* the output path batch_optimize gives file_path
BatchOutputPath(output_dir, fp) == OsPathJoin(output_dir, PathStem(fp) \o DotJpg)

(***************************************************************************)
(* State                                                                   *)
(***************************************************************************)
VARIABLES
    argv,           \* sys.argv (<<>> when the module is imported, not run)
    PIL_AVAILABLE,  \* whether "from PIL import Image" succeeded
    processor,      \* the ComicImageProcessor: max_width, max_height, quality
    fs,             \* the filesystem
    fs0,            \* the filesystem before the first call
    pc,             \* "ready", "again", "main", "batch_optimize", "done", "exited"
    history,        \* the calls of processor methods that have returned or raised
    batch,          \* the locals of the running batch_optimize (listing: what
                    \* iterdir() found; visited: the entries iterated so far)
    console,        \* what was printed, in order
    exit_status     \* the status of the process once pc = "exited"

vars == <<argv, PIL_AVAILABLE, processor, fs, fs0, pc, history, batch, console, exit_status>>

NoBatch ==
    [frame |-> "", input_dir |-> <<>>, output_arg |-> None, output_dir |-> <<>>,
     listing |-> {}, pending |-> {}, optimized_images |-> <<>>, visited |-> <<>>]

\* a call record without the filesystem it left (that one becomes fs)
Returned(rec) == [fk \in DOMAIN rec \ {"fs"} |-> rec[fk]]

(***************************************************************************)
(* The inputs of Spec: an input directory d of at most MaxFiles entries    *)
(***************************************************************************)
InputDir == <<"d">>
MissingDir == <<"m">>
OtherDir == <<"o">>

EntryNames ==
    { <<"a", ".", "p", "n", "g">>, <<"a", ".", "j", "p", "g">>,
      <<"b", ".", "P", "N", "G">>, <<"c", ".", "t", "x", "t">>,
      <<".", "b", "m", "p">> }

\* what a file of the input directory may hold: a large image, an image
\* one pixel wide, no image
EntryKinds ==
    { ImageFile("PNG", "RGBA", 4, 4, 0), ImageFile("PNG", "RGB", 1, 3, 0), GarbageFile }

ApiPolicy == [max_width |-> 2, max_height |-> 2, quality |-> DefaultQuality]

\* the filesystem whose directory d holds the files of content (name -> kind)
DirFs(content) ==
    [fp \in {InputDir} \cup {OsPathJoin(InputDir, en) : en \in DOMAIN content} |->
        IF fp = InputDir THEN Directory
        ELSE content[PathName(fp)]]

ApiFilesystems ==
    { DirFs(content) :
        content \in UNION { [names -> EntryKinds] :
                              names \in {ns \in SUBSET EntryNames :
                                            Cardinality(ns) <= MaxFiles} } }

\* the paths a caller passes as input_path: the files there are, and one that is not
ApiInputs == {ip \in DOMAIN fs : fs[ip].kind = "file"} \cup {<<"m", ".", "p", "n", "g">>}

\* the values a caller passes as output_path
ApiOutputs ==
    { None, <<"d", "/", "y", ".", "p", "n", "g">>, <<"o", "/", "x", ".", "j", "p", "g">> }

ApiThumbnailArgs == { ThumbnailDefaultSize, <<2, 2>> }

Init ==
    /\ argv = <<>>
    /\ PIL_AVAILABLE \in BOOLEAN
    /\ processor = ApiPolicy
    /\ fs \in ApiFilesystems
    /\ fs0 = fs
    /\ pc = "ready"
    /\ history = <<>>
    /\ batch = NoBatch
    /\ console = <<>>
    /\ exit_status = 0

(***************************************************************************)
(* A caller calls one method of the processor                              *)
(***************************************************************************)
Finish(rec) ==
    /\ fs' = rec.fs
    /\ history' = Append(history, Returned(rec))
    /\ pc' = "done"
    /\ UNCHANGED <<argv, PIL_AVAILABLE, processor, fs0, batch, console, exit_status>>

ApiOptimize ==
    /\ pc = "ready"
    /\ \E inp \in ApiInputs, oarg \in ApiOutputs :
          \E rec \in {OptimizeImage(PIL_AVAILABLE, processor, fs, inp, oarg)} :
             Finish(rec)

ApiThumbnail ==
    /\ pc = "ready"
    /\ \E inp \in ApiInputs, oarg \in ApiOutputs, size \in ApiThumbnailArgs :
          \E tsz \in IF PIL_AVAILABLE /\ ImageOpenError(fs, inp) = ""
                     THEN ThumbnailSizes(fs[inp].width, fs[inp].height, size)
                     ELSE {<<0, 0>>} :
             \E rec \in {CreateThumbnail(PIL_AVAILABLE, fs, inp, oarg, tsz)} :
                Finish(rec)

ApiInfo ==
    /\ pc = "ready"
    /\ \E inp \in ApiInputs :
          \E rec \in {GetImageInfo(PIL_AVAILABLE, fs, inp)} : Finish(rec)

\* batch_optimize(input_dir, output_dir) is entered: frame tells who called,
\* begun is what BatchBegin did
EnterBatch(frame, input_dir, oarg, begun) ==
    /\ fs' = begun.fs
    /\ batch' = [frame |-> frame, input_dir |-> input_dir, output_arg |-> oarg,
                 output_dir |-> begun.output_dir,
                 listing |-> IF begun.raised = "" THEN begun.pending ELSE {},
                 pending |-> IF begun.raised = "" THEN begun.pending ELSE {},
                 optimized_images |-> <<>>, visited |-> <<>>]
    /\ history' = IF begun.raised = "" THEN history
                  ELSE Append(history,
                              Returned([CallRecord("batch_optimize", input_dir,
                                                   oarg, begun.fs)
                                          EXCEPT !.raised = begun.raised]))

ApiBatch ==
    /\ pc = "ready"
    /\ \E input_dir \in {InputDir, MissingDir},
          oarg \in {None, OtherDir, <<"d", "/", "a", ".", "p", "n", "g">>} :
          \E begun \in {BatchBegin(fs, input_dir, oarg)} :
             /\ EnterBatch("api", input_dir, oarg, begun)
             /\ pc' = IF begun.raised = "" THEN "batch_optimize" ELSE "done"
    /\ UNCHANGED <<argv, PIL_AVAILABLE, processor, fs0, console, exit_status>>

\* a mutant of BatchAfterError: the first failure ends the loop
BatchAbortOnError(pending, fp) == {}

\* the entries still to iterate after file fp failed: the loop goes on
BatchAfterError(pending, fp) == pending \ {fp}

\* one iteration of the loop of batch_optimize, on entry fp
BatchStep ==
    /\ pc = "batch_optimize"
    /\ \E fp \in batch.pending :
          \E output_path \in {BatchOutputPath(batch.output_dir, fp)} :
          \E rec \in {IF IsSupported(fp)
                      THEN OptimizeImage(PIL_AVAILABLE, processor, fs, fp, output_path)
                      ELSE CallRecord("skipped", fp, None, fs)} :
             /\ fs' = rec.fs
             /\ batch' = [batch EXCEPT
                             !.pending = IF rec.raised = "" THEN @ \ {fp}
                                         ELSE BatchAfterError(@, fp),
                             !.optimized_images =
                                 IF rec.op = "optimize_image" /\ rec.raised = ""
                                 THEN Append(@, output_path) ELSE @,
                             !.visited = Append(@, [file |-> fp,
                                                    supported |-> rec.op = "optimize_image",
                                                    output_path |-> rec.ret,
                                                    raised |-> rec.raised])]
             /\ console' = IF rec.op # "optimize_image" THEN console
                           ELSE Append(console, IF rec.raised = "" THEN "Optimized"
                                                ELSE "Error processing")
    /\ UNCHANGED <<argv, PIL_AVAILABLE, processor, fs0, pc, history, exit_status>>

\* batch_optimize returns optimized_images; main() then prints the summary
BatchReturn ==
    /\ pc = "batch_optimize"
    /\ batch.pending = {}
    /\ history' = Append(history,
                         Returned([CallRecord("batch_optimize", batch.input_dir,
                                              batch.output_arg, fs)
                                     EXCEPT !.ret_list = batch.optimized_images]))
    /\ pc' = IF batch.frame = "main" THEN "exited" ELSE "done"
    /\ console' = IF batch.frame = "main"
                  THEN Append(console, "Successfully optimized") ELSE console
    /\ UNCHANGED <<argv, PIL_AVAILABLE, processor, fs, fs0, batch, exit_status>>

Next == ApiOptimize \/ ApiThumbnail \/ ApiInfo \/ ApiBatch \/ BatchStep \/ BatchReturn

Spec == Init /\ [][Next]_vars

(***************************************************************************)
(* SpecResize: optimize_image on one image of any size up to MaxDim, under *)
(* any policy up to MaxPolicy, and then again on the file it wrote         *)
(***************************************************************************)
ResizeInput == <<"p", ".", "p", "n", "g">>

InitResize ==
    /\ argv = <<>>
    /\ PIL_AVAILABLE = TRUE
    /\ processor \in [max_width : 1..MaxPolicy, max_height : 1..MaxPolicy,
                       quality : {DefaultQuality}]
    /\ fs \in { [fp \in {ResizeInput} |-> ImageFile("PNG", "RGBA", iw, ih, 0)] :
                   iw \in 1..MaxDim, ih \in 1..MaxDim }
    /\ fs0 = fs
    /\ pc = "ready"
    /\ history = <<>>
    /\ batch = NoBatch
    /\ console = <<>>
    /\ exit_status = 0

ResizeFirst ==
    /\ pc = "ready"
    /\ \E rec \in {OptimizeImage(PIL_AVAILABLE, processor, fs, ResizeInput, None)} :
          /\ fs' = rec.fs
          /\ history' = Append(history, Returned(rec))
          /\ pc' = IF rec.raised = "" THEN "again" ELSE "done"
    /\ UNCHANGED <<argv, PIL_AVAILABLE, processor, fs0, batch, console, exit_status>>

ResizeAgain ==
    /\ pc = "again"
    /\ \E rec \in {OptimizeImage(PIL_AVAILABLE, processor, fs, history[1].ret, None)} :
          /\ fs' = rec.fs
          /\ history' = Append(history, Returned(rec))
          /\ pc' = "done"
    /\ UNCHANGED <<argv, PIL_AVAILABLE, processor, fs0, batch, console, exit_status>>

NextResize == ResizeFirst \/ ResizeAgain

SpecResize == InitResize /\ [][NextResize]_vars

(***************************************************************************)
(* Properties of the resize (checked under SpecResize)                     *)
(***************************************************************************)
\* the calls of optimize_image that opened their image
OpenedOptimize == {hi \in DOMAIN history :
                     history[hi].op = "optimize_image" /\ history[hi].opened}

WithinBounds(size) == size[1] <= processor.max_width /\ size[2] <= processor.max_height

\* the size of the image a call wrote
WrittenSize(call) == <<fs[call.written].width, fs[call.written].height>>

\* whether min(max_width/ow, max_height/oh) is max_width/ow, in exact arithmetic
WidthBinds(size) == processor.max_width * size[2] <= processor.max_height * size[1]

\* floor(ow * r) and floor(oh * r) for r = min(max_width/ow, max_height/oh),
\* in exact arithmetic
ExactScaled(size) ==
    IF WidthBinds(size)
    THEN <<processor.max_width, (size[2] * processor.max_width) \div size[1]>>
    ELSE <<(size[1] * processor.max_height) \div size[2], processor.max_height>>

\* C1: optimize_image never upscales: an image within (max_width, max_height)
\* gets resize_ratio 1.0, is not resized and is written with its original
\* size; no written image is larger than the original in either dimension.
C1_NeverUpscales ==
    \A hi \in OpenedOptimize :
        /\ WithinBounds(history[hi].original_size) =>
              /\ history[hi].resize_ratio = FloatOne
              /\ ~history[hi].resized
              /\ history[hi].raised = ""
              /\ WrittenSize(history[hi]) = history[hi].original_size
        /\ history[hi].raised = "" =>
              /\ WrittenSize(history[hi])[1] <= history[hi].original_size[1]
              /\ WrittenSize(history[hi])[2] <= history[hi].original_size[2]

\* an image smaller than the policy in both dimensions was written unchanged
C1_Witness ==
    \E hi \in OpenedOptimize :
        /\ history[hi].op = "optimize_image"
        /\ history[hi].original_size[1] < processor.max_width
        /\ history[hi].original_size[2] < processor.max_height
        /\ history[hi].raised = ""
        /\ WrittenSize(history[hi]) = history[hi].original_size

\* C2 as claimed: an image exceeding the bounds is resized, to exactly
\* floor(ow * r) x floor(oh * r) for r = min(max_width/ow, max_height/oh),
\* which is within the bounds.
C2_ExactFloor ==
    \A hi \in OpenedOptimize :
        ~WithinBounds(history[hi].original_size) =>
            /\ history[hi].resized
            /\ history[hi].new_size = ExactScaled(history[hi].original_size)
            /\ WithinBounds(history[hi].new_size)
            /\ history[hi].raised = ""
            /\ WrittenSize(history[hi]) = history[hi].new_size

\* C8: optimize_image on the output of a previous optimize_image run under
\* the same policy computes resize_ratio 1.0 and writes an image of the same
\* width and height as that output.
C8_IdempotentOnDimensions ==
    Len(history) = 2 =>
        /\ history[2].input = history[1].written
        /\ history[2].opened
        /\ history[2].original_size = history[1].new_size
        /\ history[2].resize_ratio = FloatOne
        /\ ~history[2].resized
        /\ history[2].raised = ""
        /\ WrittenSize(history[2]) = WrittenSize(history[1])

\* the first run did resize, and the second run has returned
C8_Witness ==
    /\ Len(history) = 2
    /\ history[1].resized
    /\ history[1].new_size # history[1].original_size
    /\ history[2].raised = ""

\* C10 as claimed: whenever the resize branch is taken, both target
\* dimensions are at least 1.
C10_NoZeroDimension ==
    \A hi \in OpenedOptimize :
        history[hi].resized =>
            history[hi].new_size[1] >= 1 /\ history[hi].new_size[2] >= 1

(***************************************************************************)
(* Properties of the processor's methods (checked under Spec)              *)
(***************************************************************************)
\* batch_optimize has returned its list
BatchReturned ==
    /\ pc \in {"done", "exited"}
    /\ history # <<>>
    /\ history[Len(history)].op = "batch_optimize"
    /\ history[Len(history)].raised = ""

\* what batch_optimize returned
BatchResult == history[Len(history)].ret_list

\* the entries of the listing that have a supported extension
SupportedEntries == {fp \in batch.listing : IsSupported(fp)}

\* the file decodes as an image
Decodes(fp) == fp \in DOMAIN fs0 /\ fs0[fp].image

\* the iterations in which optimize_image was called on entry fp
Attempts(fp) == {vi \in DOMAIN batch.visited :
                   batch.visited[vi].file = fp /\ batch.visited[vi].supported}

Succeeded(visit) == visit.supported /\ visit.raised = ""

\* C3 as claimed: with N supported entries of which none fails to decode,
\* batch_optimize returns exactly N output paths; it calls optimize_image on
\* no entry of another extension and writes no output for one.
C3_BatchReturnsAllSupported ==
    (BatchReturned /\ PIL_AVAILABLE /\ \A fp \in SupportedEntries : Decodes(fp)) =>
        /\ Len(BatchResult) = Cardinality(SupportedEntries)
        /\ \A fp \in batch.listing \ SupportedEntries : Attempts(fp) = {}

\* C4: a failure on one file never aborts the batch: every supported entry
\* is attempted exactly once, and the returned list is the output paths of
\* exactly the files whose optimize_image call succeeded, in the order in
\* which the files were processed.
C4_BatchContinuesPastFailures ==
    BatchReturned =>
        /\ \A fp \in SupportedEntries : Cardinality(Attempts(fp)) = 1
        /\ Len(BatchResult) = Len(SelectSeq(batch.visited, Succeeded))
        /\ \A ri \in DOMAIN BatchResult :
              BatchResult[ri] = SelectSeq(batch.visited, Succeeded)[ri].output_path

\* a batch returned in which a file failed and a file processed after it
\* succeeded
C4_Witness ==
    /\ BatchReturned
    /\ \E vi, vj \in DOMAIN batch.visited :
          /\ vi < vj
          /\ batch.visited[vi].supported
          /\ batch.visited[vi].raised # ""
          /\ Succeeded(batch.visited[vj])
          /\ batch.visited[vj].output_path \in {BatchResult[ri] : ri \in DOMAIN BatchResult}

\* C5 as claimed: when PIL is unavailable, every operation raises the
\* dependency error to its caller and the filesystem is left as it was.
C5_DependencyMissingFailsAtOnce ==
    ~PIL_AVAILABLE =>
        /\ fs = fs0
        /\ pc # "batch_optimize"
        /\ \A hi \in DOMAIN history : history[hi].raised = "RuntimeError"

\* <parent>/<stem>_optimized.jpg of an input path
DefaultOptimizedPath(inp) ==
    PathDiv(PathParent(inp),
            PathStem(inp) \o <<"_", "o", "p", "t", "i", "m", "i", "z", "e", "d",
                               ".", "j", "p", "g">>)

\* the calls of optimize_image that returned
ReturnedOptimize == {hi \in DOMAIN history :
                       history[hi].op = "optimize_image" /\ history[hi].raised = ""}

\* C6 as claimed: the path optimize_image returns is the path of the file it
\* wrote and ends in .jpg whatever input_path and output_path are; without
\* output_path it is <parent>/<stem>_optimized.jpg; the file is JPEG-encoded.
C6_ReturnedPathIsJpg ==
    \A hi \in ReturnedOptimize :
        /\ history[hi].ret = history[hi].written
        /\ PathSuffix(history[hi].ret) = <<".", "j", "p", "g">>
        /\ history[hi].output_arg = None =>
              history[hi].ret = DefaultOptimizedPath(history[hi].input)
        /\ fs[history[hi].ret].format = "JPEG"

\* C6 amended: the path optimize_image returns is the path of the file it
\* wrote, and that file is JPEG-encoded; without output_path the path is
\* <parent>/<stem>_optimized.jpg (d/a.png -> d/a_optimized.jpg) and so ends
\* in .jpg; with output_path it is output_path as given, whatever its suffix.
C6_ReturnedPathIsWritten ==
    \A hi \in ReturnedOptimize :
        /\ history[hi].ret = history[hi].written
        /\ fs[history[hi].ret].kind = "file"
        /\ fs[history[hi].ret].format = "JPEG"
        /\ history[hi].output_arg = None =>
              /\ history[hi].ret = DefaultOptimizedPath(history[hi].input)
              /\ PathSuffix(history[hi].ret) = <<".", "j", "p", "g">>
              /\ history[hi].input = <<"d", "/", "a", ".", "p", "n", "g">> =>
                    history[hi].ret = <<"d", "/", "a", "_", "o", "p", "t", "i", "m",
                                        "i", "z", "e", "d", ".", "j", "p", "g">>
        /\ history[hi].output_arg # None => history[hi].ret = history[hi].output_arg

\* optimize_image was given an output_path ending in .png, wrote a JPEG
\* there and returned that path
C6_Witness ==
    \E hi \in ReturnedOptimize :
        /\ history[hi].output_arg # None
        /\ PathSuffix(history[hi].output_arg) = <<".", "p", "n", "g">>
        /\ history[hi].ret = history[hi].output_arg
        /\ fs[history[hi].ret].format = "JPEG"

\* C9 as claimed: in one run of batch_optimize distinct supported inputs get
\* distinct output paths: the returned list holds no path twice.
C9_DistinctOutputs ==
    BatchReturned =>
        \A ri, rj \in DOMAIN BatchResult :
            ri # rj => BatchResult[ri] # BatchResult[rj]

(***************************************************************************)
(* main(): the command line                                                *)
(***************************************************************************)
FlagBatch == <<"-", "-", "b", "a", "t", "c", "h">>
FlagWidth == <<"-", "-", "w", "i", "d", "t", "h">>
FlagQuality == <<"-", "-", "q", "u", "a", "l", "i", "t", "y">>

\* line 179
CliOutputPath(av) ==
    IF Len(av) > 2 /\ ~StartsWith(av[3], <<"-", "-">>) THEN av[3] ELSE None

\* line 183
CliBatchMode(av) == \E ai \in DOMAIN av : av[ai] = FlagBatch

\* the positions of the flag that have an argument after them
CliFlagUses(av, flag) == {ai \in 1..(Len(av) - 1) : av[ai] = flag}

\* whether an int() of lines 187, 189 raises ValueError
CliValueError(av) ==
    \E ai \in CliFlagUses(av, FlagWidth) \cup CliFlagUses(av, FlagQuality) :
        ~IsIntLiteral(av[ai + 1])

\* the value the loop of lines 185-189 leaves for the flag: that of its last use
CliFlagValue(av, flag, default) ==
    IF CliFlagUses(av, flag) = {} THEN default
    ELSE IntOf(av[1 + CHOOSE ai \in CliFlagUses(av, flag) :
                         \A aj \in CliFlagUses(av, flag) : aj <= ai])

\* line 191
CliProcessor(av) ==
    [max_width |-> CliFlagValue(av, FlagWidth, CliDefaultWidth),
     max_height |-> DefaultMaxHeight,
     quality |-> CliFlagValue(av, FlagQuality, CliDefaultQuality)]

\* a mutant of MainExcept: the error is printed and the process ends normally
MainExceptIgnored(out) == [console |-> Append(out, "Error"), exit_status |-> 0]

\* lines 215-217: except Exception: print the error, sys.exit(1)
MainExcept(out) == [console |-> Append(out, "Error"), exit_status |-> ExitError]

\* the process ends with what was printed and the exit status
Exit(end) ==
    /\ console' = end.console
    /\ exit_status' = end.exit_status
    /\ pc' = "exited"

\* lines 171-191: the usage check, the arguments, the processor
MainStart ==
    /\ pc = "ready"
    /\ IF Len(argv) < 2
       THEN Exit([console |-> <<"Usage">>, exit_status |-> ExitError])
                /\ UNCHANGED processor
       ELSE IF CliValueError(argv)
            THEN Exit([console |-> <<"Traceback">>, exit_status |-> ExitError])
                    /\ UNCHANGED processor
       ELSE /\ processor' = CliProcessor(argv)
            /\ pc' = "main"
            /\ UNCHANGED <<console, exit_status>>
    /\ UNCHANGED <<argv, PIL_AVAILABLE, fs, fs0, history, batch>>

\* lines 194-200: batch mode
MainBatch ==
    /\ pc = "main"
    /\ CliBatchMode(argv)
    /\ IF IsDir(fs, argv[2])
       THEN \E begun \in {BatchBegin(fs, argv[2], CliOutputPath(argv))} :
               /\ EnterBatch("main", argv[2], CliOutputPath(argv), begun)
               /\ IF begun.raised = ""
                  THEN pc' = "batch_optimize" /\ UNCHANGED <<console, exit_status>>
                  ELSE Exit(MainExcept(console))
       ELSE /\ Exit([console |-> Append(console, "Error: Batch mode requires a directory path"),
                     exit_status |-> ExitError])
            /\ UNCHANGED <<fs, history, batch>>
    /\ UNCHANGED <<argv, PIL_AVAILABLE, processor, fs0>>

\* lines 202-213: one file; called is optimize_image's call followed, when
\* it returned, by get_image_info's
MainSingle ==
    /\ pc = "main"
    /\ ~CliBatchMode(argv)
    /\ IF IsFile(fs, argv[2])
       THEN \E rec \in {OptimizeImage(PIL_AVAILABLE, processor, fs, argv[2],
                                       CliOutputPath(argv))} :
            \E called \in {IF rec.raised # "" THEN <<rec>>
                            ELSE <<rec, GetImageInfo(PIL_AVAILABLE, rec.fs, rec.ret)>>} :
               /\ fs' = rec.fs
               /\ history' = history \o [ci \in DOMAIN called |-> Returned(called[ci])]
               /\ IF rec.raised # ""
                  THEN Exit(MainExcept(console))
                  ELSE IF called[2].raised # ""
                       THEN Exit(MainExcept(Append(console, "Image optimized successfully")))
                  ELSE Exit([console |-> console \o <<"Image optimized successfully",
                                                      "Image Info">>,
                             exit_status |-> exit_status])
       ELSE /\ Exit([console |-> Append(console, "Error: Input file not found"),
                     exit_status |-> ExitError])
            /\ UNCHANGED <<fs, history>>
    /\ UNCHANGED <<argv, PIL_AVAILABLE, processor, fs0, batch>>

\* the words of the command lines tried
CliWords ==
    { <<"f", ".", "p", "n", "g">>, <<"g", ".", "p", "n", "g">>, <<"d">>,
      <<"o", ".", "j", "p", "g">>, FlagBatch, FlagWidth, FlagQuality,
      <<"1">>, <<"8", "5">> }

\* a wide image f.png, a file g.png that is no image, a directory d holding
\* an image and a file that is no image
CliFs ==
    [fp \in { <<"f", ".", "p", "n", "g">>, <<"g", ".", "p", "n", "g">>, <<"d">>,
              <<"d", "/", "a", ".", "p", "n", "g">>,
              <<"d", "/", "g", ".", "p", "n", "g">> } |->
        IF fp = <<"d">> THEN Directory
        ELSE IF fp = <<"f", ".", "p", "n", "g">> THEN ImageFile("PNG", "RGB", 3, 1, 0)
        ELSE IF fp = <<"d", "/", "a", ".", "p", "n", "g">>
             THEN ImageFile("PNG", "RGBA", 4, 4, 0)
        ELSE GarbageFile]

InitCli ==
    /\ argv \in { <<<<"image_processor.py">>>> \o args :
                    args \in UNION { [1..al -> CliWords] : al \in 0..MaxArgs } }
    /\ PIL_AVAILABLE \in BOOLEAN
    /\ processor = [max_width |-> DefaultMaxWidth, max_height |-> DefaultMaxHeight,
                    quality |-> DefaultQuality]
    /\ fs = CliFs
    /\ fs0 = fs
    /\ pc = "ready"
    /\ history = <<>>
    /\ batch = NoBatch
    /\ console = <<>>
    /\ exit_status = 0

NextCli == MainStart \/ MainBatch \/ MainSingle \/ BatchStep \/ BatchReturn

SpecCli == InitCli /\ [][NextCli]_vars

(***************************************************************************)
(* Properties of the command line (checked under SpecCli)                  *)
(***************************************************************************)
BatchFlagGiven == \E ai \in DOMAIN argv : argv[ai] = <<"-", "-", "b", "a", "t", "c", "h">>

\* a method the command line called raised
ProcessingRaised == \E hi \in DOMAIN history : history[hi].raised # ""

\* C7: the command line ends with exit status 1, having printed a message,
\* when no argument is given (the usage), when --batch is given and
\* input_path is no directory, when --batch is absent and input_path is no
\* existing file, and when processing raises in single-file mode; a file
\* that fails in batch mode does not make the exit status 1: the summary is
\* still printed.
C7_CliExitStatus ==
    pc = "exited" =>
        /\ Len(argv) < 2 => exit_status = 1 /\ console = <<"Usage">>
        /\ (Len(argv) >= 2 /\ BatchFlagGiven /\ ~IsDir(fs0, argv[2])) =>
              exit_status = 1 /\ console # <<>>
        /\ (Len(argv) >= 2 /\ ~BatchFlagGiven /\ ~IsFile(fs0, argv[2])) =>
              exit_status = 1 /\ console # <<>>
        /\ (Len(argv) >= 2 /\ ~BatchFlagGiven /\ ProcessingRaised) =>
              exit_status = 1 /\ console[Len(console)] = "Error"
        /\ BatchReturned =>
              exit_status = 0 /\ console[Len(console)] = "Successfully optimized"

\* a single-file run ended with status 1 after optimize_image raised on an
\* existing file
C7_Witness ==
    /\ pc = "exited"
    /\ ~BatchFlagGiven
    /\ Len(argv) >= 2
    /\ IsFile(fs0, argv[2])
    /\ ProcessingRaised
    /\ exit_status = 1

====
